---- MODULE Spec2Model ----
(***************************************************************************)
(* A model of bot.py: one run of the command-line trading bot.             *)
(* The run is main(): validate_and_parse_args, the credential check,       *)
(* BasicBot.__init__ (client construction and ping), BasicBot.place_order  *)
(* (one futures_create_order call) and the process exit.  The command      *)
(* line and the environment are the inputs; the exchange is the            *)
(* environment, whose answers are chosen nondeterministically.             *)
(*                                                                         *)
(* Strings are sequences of one-character strings, so that upper() and     *)
(* float() are computed.  A float is [k, v]: k = "num" with v the value    *)
(* in hundredths, k = "nan" for not-a-number, k = "none" for Python's None.*)
(***************************************************************************)
EXTENDS Integers, Sequences, FiniteSets, TLC

\* The longest --symbol value the model feeds to the program.
MaxSymLen == 2

VARIABLES
    argv,        \* the command line: each flag absent or given a token
    environ,     \* the environment variables API_KEY and API_SECRET
    pc,          \* the position of the run in main()
    args,        \* the namespace argparse produced, when it produced one
    exitStatus,  \* {} while the run goes on, then {the process exit status}
    client,      \* "none" or "constructed": the binance Client object
    pingCalls,   \* number of futures_ping calls made
    initOutcome, \* how BasicBot.__init__ ended
    requests,    \* the arguments main handed to place_order (at most one)
    orderCalls,  \* the wire parameters of each futures_create_order call
    lastOutcome, \* how the last futures_create_order call ended
    result,      \* what place_order returned
    mainCaught,  \* the exception main's except clause caught
    log          \* the records written to LOGGER

vars == <<argv, environ, pc, args, exitStatus, client, pingCalls, initOutcome,
          requests, orderCalls, lastOutcome, result, mainCaught, log>>

----------------------------------------------------------------------------
(* Values *)

Num(n) == [k |-> "num", v |-> n]
NaN == [k |-> "nan", v |-> 0]
None == [k |-> "none", v |-> 0]

Absent == [present |-> FALSE, tok |-> <<>>]
Given(t) == [present |-> TRUE, tok |-> t]

BUY == <<"B", "U", "Y">>
SELL == <<"S", "E", "L", "L">>
MARKET == <<"M", "A", "R", "K", "E", "T">>
LIMIT == <<"L", "I", "M", "I", "T">>

\* binance.enums, imported at line 10
ORDER_TYPE_LIMIT == LIMIT
TIME_IN_FORCE_GTC == <<"G", "T", "C">>

LowerLetters ==
    <<"a", "b", "c", "d", "e", "f", "g", "h", "i", "j", "k", "l", "m",
      "n", "o", "p", "q", "r", "s", "t", "u", "v", "w", "x", "y", "z">>
UpperLetters ==
    <<"A", "B", "C", "D", "E", "F", "G", "H", "I", "J", "K", "L", "M",
      "N", "O", "P", "Q", "R", "S", "T", "U", "V", "W", "X", "Y", "Z">>
Digits == <<"0", "1", "2", "3", "4", "5", "6", "7", "8", "9">>

Range(s) == {s[i] : i \in DOMAIN s}
IndexOf(s, c) == CHOOSE i \in DOMAIN s : s[i] = c

----------------------------------------------------------------------------
(* str.upper(), as main applies it to symbol, side and type *)

UpperChar(c) ==
    IF c \in Range(LowerLetters) THEN UpperLetters[IndexOf(LowerLetters, c)]
    ELSE c

IdentityStr(s) == s

Upper(s) == [i \in DOMAIN s |-> UpperChar(s[i])]

----------------------------------------------------------------------------
(* float(), the type= conversion of --qty and --price *)

DigitVal(c) == IndexOf(Digits, c) - 1

RECURSIVE DigitsValue(_)
DigitsValue(s) ==
    IF s = <<>> THEN 0
    ELSE 10 * DigitsValue(SubSeq(s, 1, Len(s) - 1)) + DigitVal(s[Len(s)])

AllDigits(s) == \A i \in DOMAIN s : s[i] \in Range(Digits)

\* The fraction digits as hundredths (the model keeps two decimals).
Hundredths(f) ==
    IF Len(f) = 0 THEN 0
    ELSE IF Len(f) = 1 THEN 10 * DigitVal(f[1])
    ELSE 10 * DigitVal(f[1]) + DigitVal(f[2])

\* [ok, val]: ok is FALSE where float() raises ValueError.
ParseFloat(t) ==
    LET neg == Len(t) > 0 /\ t[1] = "-"
        body == IF neg \/ (Len(t) > 0 /\ t[1] = "+") THEN Tail(t) ELSE t
        dots == {i \in DOMAIN body : body[i] = "."}
        dot == IF dots = {} THEN Len(body) + 1 ELSE CHOOSE i \in dots : TRUE
        ip == SubSeq(body, 1, dot - 1)
        fp == SubSeq(body, dot + 1, Len(body))
        mag == 100 * DigitsValue(ip) + Hundredths(fp)
    IN  IF Upper(body) = <<"N", "A", "N">> THEN [ok |-> TRUE, val |-> NaN]
        ELSE IF /\ Cardinality(dots) <= 1
                /\ AllDigits(ip) /\ AllDigits(fp)
                /\ Len(ip) + Len(fp) > 0
             THEN [ok |-> TRUE, val |-> Num(IF neg THEN 0 - mag ELSE mag)]
        ELSE [ok |-> FALSE, val |-> None]

----------------------------------------------------------------------------
(* argparse: parser.parse_args() *)

ChoiceOK_nocase(tok, choices) == Upper(tok) \in choices

\* choices=[...]: the converted value must be one of the choices.
ChoiceOK(tok, choices) == tok \in choices

\* parser.error() ends the process with this status.
ArgparseErrorStatus == 2

\* Whether parse_args() accepts the command line.
ParseOK(av) ==
    /\ av.symbol.present
    /\ av.side.present /\ ChoiceOK(av.side.tok, {BUY, SELL})
    /\ av.type.present /\ ChoiceOK(av.type.tok, {MARKET, LIMIT})
    /\ av.qty.present /\ ParseFloat(av.qty.tok).ok
    /\ (av.price.present => ParseFloat(av.price.tok).ok)

\* The namespace parse_args() returns for an accepted command line.
Namespace(av) ==
    [present |-> TRUE,
     symbol |-> av.symbol.tok,
     side |-> av.side.tok,
     type |-> av.type.tok,
     qty |-> ParseFloat(av.qty.tok).val,
     price |-> IF av.price.present THEN ParseFloat(av.price.tok).val ELSE None]

NoArgs ==
    [present |-> FALSE, symbol |-> <<>>, side |-> <<>>, type |-> <<>>,
     qty |-> None, price |-> None]

----------------------------------------------------------------------------
(* Python comparisons on floats: every comparison with nan is False *)

FloatLE0(x) == x.k = "num" /\ x.v <= 0

\* bool(x) for a float or None
Truthy(x) == x.k = "nan" \/ (x.k = "num" /\ x.v # 0)

----------------------------------------------------------------------------
(* The inputs of a run *)

SymChars == {"b", "C", "1"}

RECURSIVE StringsUpTo(_)
StringsUpTo(n) ==
    IF n = 0 THEN {<<>>}
    ELSE LET shorter == StringsUpTo(n - 1)
         IN  shorter \cup {Append(s, c) : s \in shorter, c \in SymChars}

SymbolArgs == {Absent} \cup {Given(s) : s \in StringsUpTo(MaxSymLen)}
SideArgs == {Absent, Given(BUY), Given(SELL), Given(<<"b", "u", "y">>)}
TypeArgs == {Absent, Given(MARKET), Given(LIMIT), Given(<<"l", "i", "m", "i", "t">>)}
QtyArgs ==
    {Absent, Given(<<"-", "1">>), Given(<<"0">>), Given(<<"0", ".", "0", "1">>),
     Given(<<"n", "a", "n">>), Given(<<"a", "b", "c">>)}
PriceArgs ==
    {Absent, Given(<<"-", "5">>), Given(<<"0">>), Given(<<"1", "0", "0">>),
     Given(<<"5", "0", "0", "0", "0">>), Given(<<"1", "x">>)}

\* os.getenv: unset (None), set to the empty string, or set to a value
EnvUnset == [set |-> FALSE, val |-> ""]
EnvValues == {EnvUnset, [set |-> TRUE, val |-> ""], [set |-> TRUE, val |-> "k"]}

\* How a call to the exchange library can end.
InitOutcomes == {"ok", "construct_failed", "ping_failed"}
OrderOutcomes == {"ok", "bad_response", "api_error", "order_error", "other_error"}

----------------------------------------------------------------------------
(* Logging *)

Entry(level, msg, price) == [level |-> level, msg |-> msg, price |-> price]

----------------------------------------------------------------------------
(* validate_and_parse_args *)

QtyInvalid_negative(qty) == qty.k = "num" /\ qty.v < 0

\* line 122: args.qty <= 0
QtyInvalid(qty) == FloatLE0(qty)

\* line 126: args.type == 'LIMIT' and (args.price is None or args.price <= 0)
PriceInvalid(type, price) ==
    type = LIMIT /\ (price.k = "none" \/ FloatLE0(price))

ValidateAndParseArgs ==
    /\ pc = "start"
    /\ IF ~ParseOK(argv)
       THEN /\ exitStatus' = {ArgparseErrorStatus}
            /\ pc' = "done"
            /\ UNCHANGED <<args, log>>
       ELSE LET ns == Namespace(argv)
            IN  /\ args' = ns
                /\ IF QtyInvalid(ns.qty)
                   THEN /\ log' = Append(log, Entry("ERROR", "Quantity must be greater than zero.", None))
                        /\ exitStatus' = {1}
                        /\ pc' = "done"
                   ELSE IF PriceInvalid(ns.type, ns.price)
                   THEN /\ log' = Append(log, Entry("ERROR", "LIMIT orders require a positive --price.", None))
                        /\ exitStatus' = {1}
                        /\ pc' = "done"
                   ELSE /\ pc' = "credentials"
                        /\ UNCHANGED <<exitStatus, log>>
    /\ UNCHANGED <<argv, environ, client, pingCalls, initOutcome, requests,
                   orderCalls, lastOutcome, result, mainCaught>>

----------------------------------------------------------------------------
(* main, lines 136-142: the credential check *)

Falsy(e) == ~e.set \/ e.val = ""

CredentialsMissing_both(key, secret) == Falsy(key) /\ Falsy(secret)

\* line 139: not API_KEY or not API_SECRET
CredentialsMissing(key, secret) == Falsy(key) \/ Falsy(secret)

LoadCredentials ==
    /\ pc = "credentials"
    /\ IF CredentialsMissing(environ.API_KEY, environ.API_SECRET)
       THEN /\ log' = Append(log, Entry("ERROR", "API keys not loaded. Check your .env file.", None))
            /\ exitStatus' = {1}
            /\ pc' = "done"
       ELSE /\ pc' = "init"
            /\ UNCHANGED <<exitStatus, log>>
    /\ UNCHANGED <<argv, environ, args, client, pingCalls, initOutcome, requests,
                   orderCalls, lastOutcome, result, mainCaught>>

----------------------------------------------------------------------------
(* BasicBot.__init__ *)

AfterInitError_swallowed == "place_order"

\* line 54: raise; the exception leaves __init__ and reaches main's except
AfterInitError == "main_except"

BasicBotInit ==
    /\ pc = "init"
    /\ \E outcome \in InitOutcomes :
        /\ initOutcome' = outcome
        /\ client' = IF outcome = "construct_failed" THEN "none" ELSE "constructed"
        /\ pingCalls' = IF outcome = "construct_failed" THEN pingCalls ELSE pingCalls + 1
        /\ IF outcome = "ok"
           THEN /\ log' = log \o <<Entry("INFO", "Initializing BasicBot...", None),
                                   Entry("INFO", "Binance Client initialized successfully and connected to Testnet.", None)>>
                /\ pc' = "place_order"
                /\ UNCHANGED mainCaught
           ELSE /\ log' = log \o <<Entry("INFO", "Initializing BasicBot...", None),
                                   Entry("ERROR", "Error initializing Binance Client", None)>>
                /\ pc' = AfterInitError
                /\ mainCaught' = IF AfterInitError = "main_except" THEN outcome ELSE mainCaught
    /\ UNCHANGED <<argv, environ, args, exitStatus, requests, orderCalls,
                   lastOutcome, result>>

----------------------------------------------------------------------------
(* BasicBot.place_order *)

BaseParams(symbol, side, order_type, quantity) ==
    [symbol |-> symbol, side |-> side, type |-> order_type,
     quantity |-> quantity, timeInForce |-> TIME_IN_FORCE_GTC]

BuildParams_alwaysPrice(symbol, side, order_type, quantity, price) ==
    IF price.k # "none"
    THEN BaseParams(symbol, side, order_type, quantity) @@ ("price" :> price)
    ELSE BaseParams(symbol, side, order_type, quantity)

\* lines 66-79: the keyword arguments of futures_create_order
BuildParams(symbol, side, order_type, quantity, price) ==
    IF order_type = ORDER_TYPE_LIMIT
    THEN BaseParams(symbol, side, order_type, quantity) @@ ("price" :> price)
    ELSE BaseParams(symbol, side, order_type, quantity)

\* lines 147-153 and 57-79: main calls place_order with the upper-cased
\* arguments; place_order logs the attempt and builds the parameters.
PlaceOrder ==
    /\ pc = "place_order"
    /\ LET req == [symbol |-> Upper(args.symbol), side |-> Upper(args.side),
                   order_type |-> Upper(args.type), quantity |-> args.qty,
                   price |-> args.price]
           attempt == Entry("INFO", "Attempting order",
                            IF Truthy(req.price) THEN req.price ELSE None)
       IN  /\ requests' = Append(requests, req)
           /\ IF req.order_type = ORDER_TYPE_LIMIT /\ req.price.k = "none"
              THEN /\ log' = log \o <<attempt, Entry("ERROR", "LIMIT order requires a 'price' parameter.", None)>>
                   /\ result' = "None"
                   /\ pc' = "main_return"
              ELSE /\ log' = Append(log, attempt)
                   /\ pc' = "create_order"
                   /\ UNCHANGED result
    /\ UNCHANGED <<argv, environ, args, exitStatus, client, pingCalls, initOutcome,
                   orderCalls, lastOutcome, mainCaught>>

CaughtByPlaceOrder_apiOnly(outcome) == outcome = "api_error"

CaughtByPlaceOrder_all(outcome) == TRUE

\* lines 93 and 98: except BinanceAPIException, except BinanceOrderException
CaughtByPlaceOrder(outcome) == outcome \in {"api_error", "order_error"}

AfterClassifiedError_retry == "create_order"

\* lines 96 and 101: return None, back in main after the call
AfterClassifiedError == "main_return"

\* lines 81-101: the one futures_create_order call and what follows it
FuturesCreateOrder ==
    /\ pc = "create_order"
    /\ \E outcome \in OrderOutcomes :
        LET req == requests[Len(requests)]
            params == BuildParams(req.symbol, req.side, req.order_type,
                                  req.quantity, req.price)
        IN  /\ orderCalls' = Append(orderCalls, params)
            /\ lastOutcome' = outcome
            /\ IF outcome = "ok"
               THEN /\ log' = log \o <<Entry("INFO", "Order placed successfully.", None),
                                       Entry("DEBUG", "API Response (Success)", None)>>
                    /\ result' = "response"
                    /\ pc' = "main_return"
                    /\ UNCHANGED mainCaught
               ELSE IF CaughtByPlaceOrder(outcome)
               THEN /\ log' = Append(log, Entry("ERROR",
                                 IF outcome = "api_error" THEN "Binance API Error"
                                 ELSE "Binance Order Error", None))
                    /\ result' = "None"
                    /\ pc' = AfterClassifiedError
                    /\ UNCHANGED mainCaught
               ELSE /\ mainCaught' = outcome
                    /\ pc' = "main_except"
                    /\ UNCHANGED <<log, result>>
    /\ UNCHANGED <<argv, environ, args, exitStatus, client, pingCalls, initOutcome,
                   requests>>

----------------------------------------------------------------------------
(* main: the two ways the try statement ends *)

\* place_order returned: main ends and the interpreter exits with status 0
MainReturn ==
    /\ pc = "main_return"
    /\ exitStatus' = {0}
    /\ pc' = "done"
    /\ UNCHANGED <<argv, environ, args, client, pingCalls, initOutcome, requests,
                   orderCalls, lastOutcome, result, mainCaught, log>>

\* lines 155-157: except Exception: LOGGER.critical, sys.exit(1)
MainExcept ==
    /\ pc = "main_except"
    /\ log' = Append(log, Entry("CRITICAL", "Main execution failed", None))
    /\ exitStatus' = {1}
    /\ pc' = "done"
    /\ UNCHANGED <<argv, environ, args, client, pingCalls, initOutcome, requests,
                   orderCalls, lastOutcome, result, mainCaught>>

----------------------------------------------------------------------------

Init ==
    /\ argv \in [symbol : SymbolArgs, side : SideArgs, type : TypeArgs,
                 qty : QtyArgs, price : PriceArgs]
    /\ environ \in [API_KEY : EnvValues, API_SECRET : EnvValues]
    /\ pc = "start"
    /\ args = NoArgs
    /\ exitStatus = {}
    /\ client = "none"
    /\ pingCalls = 0
    /\ initOutcome = "none"
    /\ requests = <<>>
    /\ orderCalls = <<>>
    /\ lastOutcome = "none"
    /\ result = "unset"
    /\ mainCaught = "none"
    /\ log = <<>>

Next ==
    \/ ValidateAndParseArgs
    \/ LoadCredentials
    \/ BasicBotInit
    \/ PlaceOrder
    \/ FuturesCreateOrder
    \/ MainReturn
    \/ MainExcept

Spec == Init /\ [][Next]_vars

----------------------------------------------------------------------------
(* Vocabulary of the properties, stated on the inputs and the observable   *)
(* effects of the run rather than through the operators above.             *)

Logged(level, msg) == \E i \in DOMAIN log : log[i].level = level /\ log[i].msg = msg

Positive(x) == x.k = "num" /\ x.v > 0
NonPositive(x) == x.k = "num" /\ x.v <= 0

\* The parsed arguments are a validation error.
ValidationError ==
    /\ args.present
    /\ \/ NonPositive(args.qty)
       \/ args.type = LIMIT /\ (args.price = None \/ NonPositive(args.price))

NoExchangeInteraction ==
    client = "none" /\ pingCalls = 0 /\ orderCalls = <<>>

EnvMissing(e) == e = EnvUnset \/ e.val = ""
CredentialsGiven == ~EnvMissing(environ.API_KEY) /\ ~EnvMissing(environ.API_SECRET)

\* The tokens of the model that are numbers to float().
NumberTokens ==
    {<<"-", "1">>, <<"0">>, <<"0", ".", "0", "1">>, <<"n", "a", "n">>,
     <<"-", "5">>, <<"1", "0", "0">>, <<"5", "0", "0", "0", "0">>}

\* A required flag is absent, or a value is not one argparse accepts.
ArgvInvalid ==
    \/ ~argv.symbol.present
    \/ ~argv.side.present \/ argv.side.tok \notin {BUY, SELL}
    \/ ~argv.type.present \/ argv.type.tok \notin {MARKET, LIMIT}
    \/ ~argv.qty.present \/ argv.qty.tok \notin NumberTokens
    \/ argv.price.present /\ argv.price.tok \notin NumberTokens

WireBase == {"symbol", "side", "type", "quantity", "timeInForce"}

IsUpperCase(s) == \A i \in DOMAIN s : s[i] \notin Range(LowerLetters)

\* u is s with each lower-case letter replaced by its capital.
IsUpperCaseOf(u, s) ==
    /\ Len(u) = Len(s)
    /\ IsUpperCase(u)
    /\ \A i \in DOMAIN s :
        \/ u[i] = s[i]
        \/ \E j \in DOMAIN LowerLetters : s[i] = LowerLetters[j] /\ u[i] = UpperLetters[j]

----------------------------------------------------------------------------
(* The claims *)

\* C1: a run whose parsed arguments are a validation error (qty <= 0, or
\* LIMIT with price absent or <= 0) ends with exit status 1 and never
\* constructs the client, pings or creates an order, whatever the credentials.
C1_ValidationErrorExits1 ==
    ValidationError =>
        pc = "done" /\ exitStatus = {1} /\ NoExchangeInteraction

\* C1 witness: qty = 0 with both credentials present, the run over.
C1_Witness ==
    /\ ValidationError /\ args.qty = Num(0)
    /\ CredentialsGiven
    /\ pc = "done" /\ exitStatus = {1}

\* C2: every order-creation call carries exactly symbol, side, type, quantity
\* and timeInForce = GTC with the request's values, plus price if and only if
\* type is LIMIT (then the request's price); a MARKET order has no price.
C2_WireParams ==
    \A i \in DOMAIN orderCalls :
        LET p == orderCalls[i]
            r == requests[1]
        IN  /\ DOMAIN p = WireBase \cup (IF r.order_type = LIMIT THEN {"price"} ELSE {})
            /\ p.symbol = r.symbol
            /\ p.side = r.side
            /\ p.type = r.order_type
            /\ p.quantity = r.quantity /\ p.quantity = args.qty
            /\ p.timeInForce = <<"G", "T", "C">>
            /\ r.order_type = LIMIT => p.price = r.price /\ p.price = args.price

\* C2 witness: --type MARKET --price 100 submitted with GTC and no price.
C2_Witness ==
    /\ Len(orderCalls) = 1
    /\ argv.type = Given(MARKET)
    /\ argv.price = Given(<<"1", "0", "0">>)
    /\ DOMAIN orderCalls[1] = WireBase
    /\ orderCalls[1].timeInForce = <<"G", "T", "C">>

\* C3: when the order-creation call fails with an exchange-API-level or an
\* exchange-order-level error, place_order returns no payload, main's
\* critical handler is not triggered and the process exits 0, as it does
\* for an accepted order.
C3_ClassifiedErrorExits0 ==
    /\ lastOutcome \in {"api_error", "order_error"} =>
        /\ result = "None"
        /\ mainCaught = "none"
        /\ ~Logged("CRITICAL", "Main execution failed")
        /\ pc \in {"main_return", "done"}
        /\ pc = "done" => exitStatus = {0}
    /\ lastOutcome = "ok" /\ pc = "done" => exitStatus = {0}

\* C3 witness: an order-level rejection, the run over with status 0.
C3_Witness ==
    lastOutcome = "order_error" /\ pc = "done" /\ exitStatus = {0}

\* C4: when the order-creation call fails with any other error, place_order
\* neither returns nor logs an order failure; the error reaches main, is
\* logged as critical and the process exits 1.
C4_UnclassifiedErrorExits1 ==
    lastOutcome = "other_error" =>
        /\ result = "unset"
        /\ ~Logged("ERROR", "Binance API Error")
        /\ ~Logged("ERROR", "Binance Order Error")
        /\ mainCaught = "other_error"
        /\ pc \in {"main_except", "done"}
        /\ pc = "done" =>
            Logged("CRITICAL", "Main execution failed") /\ exitStatus = {1}

\* C4 witness: a network fault during the call, the run over with status 1.
C4_Witness ==
    lastOutcome = "other_error" /\ pc = "done" /\ exitStatus = {1}

\* C5: with API_KEY or API_SECRET missing or empty, the client is never
\* constructed, no ping and no order call is made, and a run with otherwise
\* valid arguments ends with exit status 1.
C5_MissingCredentialsExit1 ==
    ~CredentialsGiven =>
        /\ NoExchangeInteraction
        /\ pc \in {"start", "credentials", "done"}
        /\ pc = "done" /\ args.present /\ ~ValidationError => exitStatus = {1}

\* C5 witness: only API_SECRET is empty, the arguments are valid, the run over.
C5_Witness ==
    /\ ~EnvMissing(environ.API_KEY) /\ environ.API_SECRET.val = ""
    /\ args.present /\ ~ValidationError
    /\ pc = "done" /\ exitStatus = {1}

\* C6 as stated: every run ends with exit status 0 or 1, and a run with
\* missing or invalid command-line arguments ends with exit status 1.
C6_Original ==
    /\ exitStatus \subseteq {0, 1}
    /\ ArgvInvalid /\ pc = "done" => exitStatus = {1}

\* C6 amended: every run ends with exit status 0, 1 or 2, and a run with
\* missing or invalid command-line arguments ends with exit status 2, the
\* status of argparse's error exit, with nothing parsed and nothing logged.
C6_ArgumentErrorExits2 ==
    /\ exitStatus \subseteq {0, 1, 2}
    /\ pc = "done" => exitStatus # {}
    /\ ArgvInvalid /\ pc = "done" =>
        exitStatus = {2} /\ ~args.present /\ log = <<>> /\ NoExchangeInteraction

\* C6 witness: --side buy, not one of the choices, the run over with status 2.
C6_Witness ==
    /\ argv.side = Given(<<"b", "u", "y">>)
    /\ argv.symbol.present /\ argv.type = Given(MARKET)
    /\ argv.qty = Given(<<"0", ".", "0", "1">>) /\ ~argv.price.present
    /\ pc = "done" /\ exitStatus = {2}

\* C7: the order-creation call is issued at most once in a run, and exactly
\* once for a request that reached place_order, whether the call succeeded,
\* failed with a classified error or failed with an unclassified one.
C7_NoRetry ==
    /\ Len(orderCalls) <= 1
    /\ Len(requests) <= 1
    /\ lastOutcome # "none" => Len(orderCalls) = 1
    /\ Len(requests) = 1 /\ pc \in {"main_return", "main_except", "done"} =>
        Len(orderCalls) = 1 /\ lastOutcome # "none"

\* C7 witness: an API-level error, the run over after a single call.
C7_Witness ==
    lastOutcome = "api_error" /\ pc = "done" /\ Len(orderCalls) = 1

\* C8: an order-creation call is only issued after client construction and
\* the ping both succeeded; if either fails, the error is logged and
\* re-raised, no order call is made, main logs a critical failure and the
\* process exits 1.
C8_OrderOnlyAfterInit ==
    /\ orderCalls # <<>> =>
        initOutcome = "ok" /\ client = "constructed" /\ pingCalls = 1
    /\ initOutcome \in {"construct_failed", "ping_failed"} =>
        /\ Logged("ERROR", "Error initializing Binance Client")
        /\ mainCaught = initOutcome
        /\ requests = <<>> /\ orderCalls = <<>>
        /\ pc \in {"main_except", "done"}
        /\ pc = "done" =>
            Logged("CRITICAL", "Main execution failed") /\ exitStatus = {1}

\* C8 witness: the ping failed, the run over with status 1.
C8_Witness ==
    initOutcome = "ping_failed" /\ pingCalls = 1 /\ pc = "done" /\ exitStatus = {1}

\* C9: every order-creation call carries the upper-cased --symbol input and
\* a side that is BUY or SELL.
C9_UpperCased ==
    \A i \in DOMAIN orderCalls :
        /\ IsUpperCaseOf(orderCalls[i].symbol, argv.symbol.tok)
        /\ orderCalls[i].side \in {BUY, SELL}
        /\ argv.symbol.tok = <<"b", "C">> => orderCalls[i].symbol = <<"B", "C">>

\* C9 witness: --symbol b1 submitted as B1.
C9_Witness ==
    /\ Len(orderCalls) = 1
    /\ argv.symbol.tok = <<"b", "1">>
    /\ orderCalls[1].symbol = <<"B", "1">>

\* C10 as stated: every request main hands to place_order has quantity > 0
\* and a price that is present and > 0 exactly when the type is LIMIT; a
\* MARKET request carries no price and its 'Attempting order' record shows none.
C10_Original ==
    \A i \in DOMAIN requests :
        LET r == requests[i]
        IN  /\ Positive(r.quantity)
            /\ Positive(r.price) <=> r.order_type = LIMIT
            /\ r.order_type = MARKET =>
                /\ r.price = None
                /\ \A j \in DOMAIN log :
                    log[j].msg = "Attempting order" => log[j].price = None

====
